---- MODULE Spec2Model ----
(***************************************************************************)
(* Model of backend/cs_server_fetcher.py: CS16ServerFetcher.resolve_address,*)
(* fetch, _fetch_player_list and fetch_multiple, together with the         *)
(* environment they call into (socket.gethostbyname, a2s.info,             *)
(* a2s.players).                                                           *)
(*                                                                         *)
(* Python strings are sequences of tokens (a token is one character for    *)
(* hosts, ports and keys, and one literal fragment for messages), so that  *)
(* f-string formatting is concatenation and can collide.  Python values of *)
(* dynamic type are records [t, n, s]: t the type name, n the number (an   *)
(* int, or a float counted in tenths), s the characters of a str.          *)
(***************************************************************************)
EXTENDS Integers, Sequences, FiniteSets, TLC

\* ------------------------------------------------------------------ bounds
MaxBatch == 2
MaxPlayers == 2

\* ------------------------------------------------------- program constants
MIN_PORT == 1
MAX_PORT == 65535
\* timeouts count in tenths of a second
DEFAULT_TIMEOUT == 30
MIN_TIMEOUT == 5

\* ------------------------------------------------------------ Python values
PyInt(n) == [t |-> "int", n |-> n, s |-> <<>>]
PyFloat(tenths) == [t |-> "float", n |-> tenths, s |-> <<>>]
PyStr(chars) == [t |-> "str", n |-> 0, s |-> chars]
PyBool(b) == [t |-> "bool", n |-> IF b THEN 1 ELSE 0, s |-> <<>>]

Digits == <<"0", "1", "2", "3", "4", "5", "6", "7", "8", "9">>

RECURSIVE DecStr(_)
DecStr(n) == IF n < 10 THEN <<Digits[n + 1]>>
             ELSE DecStr(n \div 10) \o <<Digits[(n % 10) + 1]>>

\* str(v) / f"{v}" of a value
Str(v) == CASE v.t = "str" -> v.s
            [] v.t = "int" -> DecStr(v.n)
            [] v.t = "float" -> DecStr(v.n \div 10) \o <<".">> \o DecStr(v.n % 10)
            [] v.t = "bool" -> IF v.n = 1 THEN <<"T", "r", "u", "e">>
                               ELSE <<"F", "a", "l", "s", "e">>

\* f"{type(v)}"
TypeRepr(v) == <<"<class '", v.t, "'>">>

\* truthiness of a value: `not v` is ~Truthy(v)
Truthy(v) == CASE v.t = "str" -> v.s # <<>>
               [] v.t = "int" -> v.n # 0
               [] v.t = "float" -> v.n # 0
               [] v.t = "bool" -> v.n # 0

\* the values fetch is called with
Hosts == {PyStr(<<"a">>), PyStr(<<>>), PyInt(7)}
Ports == {PyInt(0), PyInt(1), PyInt(65535), PyInt(65536),
          PyFloat(10), PyFloat(700000), PyStr(<<"1">>), PyBool(TRUE)}
Servers == [host : Hosts, port : Ports]

\* the requests fetch_multiple is called with: two addresses that can be
\* queried, and a request whose key text equals that of the first
BatchServers ==
    {[host |-> PyStr(<<"a">>), port |-> PyInt(1)],
     [host |-> PyStr(<<"a">>), port |-> PyInt(65535)],
     [host |-> PyStr(<<"a">>), port |-> PyStr(<<"1">>)]}

\* the timeout values a fetcher is constructed with: 0.1 s, below the floor,
\* and the default
Timeouts == {1, DEFAULT_TIMEOUT}

\* sequences over S of length at most n
SeqUpTo(S, n) == UNION {[1..k -> S] : k \in 0..n}

\* ------------------------------------------------------------- exceptions
NoExc == [cls |-> "none", msg |-> <<>>]
Raise(cls, msg) == [cls |-> cls, msg |-> msg]

\* direct base class of each exception class the environment can raise
BaseOf(cls) == CASE cls = "gaierror" -> "OSError"
                 [] cls = "timeout" -> "OSError"
                 [] cls = "ConnectionRefusedError" -> "OSError"
                 [] cls = "ConnectionResetError" -> "OSError"
                 [] cls = "OSError" -> "Exception"
                 [] cls = "UnicodeError" -> "ValueError"
                 [] cls = "ValueError" -> "Exception"
                 [] cls = "BrokenMessageError" -> "Exception"
                 [] OTHER -> "object"

RECURSIVE IsInstance(_, _)
IsInstance(cls, base) ==
    IF cls = base THEN TRUE
    ELSE IF cls \in {"Exception", "object", "none"} THEN FALSE
    ELSE IsInstance(BaseOf(cls), base)

\* -------------------------------------------------------------- environment
\* what socket.gethostbyname(host) does for a non-empty host string
ResolvedIP == <<"9", ".", "9", ".", "9", ".", "9">>
DnsBehaviours ==
    {[kind |-> "ok", exc |-> NoExc],
     [kind |-> "fail", exc |-> Raise("gaierror", <<"[Errno -2] Name or service not known">>)],
     [kind |-> "fail", exc |-> Raise("UnicodeError", <<"label empty or too long">>)],
     [kind |-> "fail", exc |-> Raise("OSError", <<"[Errno 11] Resource temporarily unavailable">>)]}
DnsIdle == [kind |-> "uncalled", exc |-> NoExc]

gethostbyname(beh) ==
    IF beh.kind = "ok" THEN [exc |-> NoExc, val |-> ResolvedIP]
    ELSE [exc |-> beh.exc, val |-> <<>>]

\* the one INFO answer a responding server gives
InfoResponse ==
    [server_name |-> "CS Server", map_name |-> "de_dust2", player_count |-> 2,
     max_players |-> 32, game |-> "Counter-Strike", server_type |-> "d",
     platform |-> "l", password_protected |-> FALSE, vac_enabled |-> TRUE]

\* round-trip time of the INFO exchange, in microseconds
Latencies == {12347}

\* what the queried server does with the INFO request
InfoBehaviours == {"respond", "silent", "refuse", "reset", "unreachable",
                   "garbled", "badvalue"}

a2s_info(beh) ==
    CASE beh = "respond" -> [exc |-> NoExc, val |-> <<InfoResponse>>]
      [] beh = "silent" -> [exc |-> Raise("timeout", <<"timed out">>), val |-> <<>>]
      [] beh = "refuse" ->
           [exc |-> Raise("ConnectionRefusedError", <<"[Errno 111] Connection refused">>),
            val |-> <<>>]
      [] beh = "reset" ->
           [exc |-> Raise("ConnectionResetError", <<"[Errno 104] Connection reset by peer">>),
            val |-> <<>>]
      [] beh = "unreachable" ->
           [exc |-> Raise("OSError", <<"[Errno 101] Network is unreachable">>), val |-> <<>>]
      [] beh = "garbled" ->
           [exc |-> Raise("BrokenMessageError", <<"Invalid response type">>), val |-> <<>>]
      [] beh = "badvalue" ->
           [exc |-> Raise("ValueError",
                          <<"Compressed data ended before the end-of-stream marker was reached">>),
            val |-> <<>>]

\* players a PLAYER response can list; an empty name is slot padding
Player(name, score, duration) == [name |-> name, score |-> score, duration |-> duration]
PlayerEntries == {Player(<<>>, 0, 0), Player(<<"p">>, 5, 90)}

PlayerBehaviours ==
    [kind : {"respond"}, players : SeqUpTo(PlayerEntries, MaxPlayers)]
    \cup [kind : {"silent", "refuse", "garbled"}, players : {<<>>}]
PlayersIdle == [kind |-> "uncalled", players |-> <<>>]

a2s_players(beh) ==
    CASE beh.kind = "respond" -> [exc |-> NoExc, val |-> beh.players]
      [] beh.kind = "silent" -> [exc |-> Raise("timeout", <<"timed out">>), val |-> <<>>]
      [] beh.kind = "refuse" ->
           [exc |-> Raise("ConnectionRefusedError", <<"[Errno 111] Connection refused">>),
            val |-> <<>>]
      [] beh.kind = "garbled" ->
           [exc |-> Raise("BrokenMessageError", <<"Invalid response type">>), val |-> <<>>]

\* ------------------------------------------------------------------- state
VARIABLES
    mode,       \* entry point in progress: "idle", "fetch" or "batch"
    servers,    \* fetch_multiple's argument
    idx,        \* position of the for loop in servers
    results,    \* fetch_multiple's dict: key -> result
    calls,      \* completed fetch calls, in order: arguments, I/O, result
    pc,         \* position inside fetch: "resolve", "info", "players", "except"
    timeoutArg, \* the timeout the fetcher was constructed with
    timeout,    \* self.timeout
    sent,       \* queries sent by the fetch in progress, with their timeout
    elapsed,    \* time spent blocked in queries since the entry point was called
    host,       \* fetch's arguments
    port,
    address,    \* (resolved_ip, resolved_port), <<>> while unset
    info,       \* <<the INFO answer>>, <<>> while unset
    ping,       \* round(ping, 2) in hundredths of a millisecond
    exc,        \* the exception in flight inside fetch's try block
    handler,    \* the except clause of fetch that produced the result
    trace,      \* I/O calls made by the fetch in progress, in order
    env,        \* what resolver and server did during the fetch in progress
    retval      \* value returned to the caller of the entry point

vars == <<mode, servers, idx, results, calls, pc, timeoutArg, timeout, sent,
          elapsed, host, port, address, info, ping, exc, handler, trace, env,
          retval>>

NoValue == PyStr(<<>>)
EnvIdle == [dns |-> DnsIdle, info |-> "uncalled", latency |-> 0, players |-> PlayersIdle]

Init ==
    /\ mode = "idle"
    /\ servers = <<>>
    /\ idx = 0
    /\ results = <<>>
    /\ calls = <<>>
    /\ pc = "new"
    /\ timeoutArg = 0
    /\ timeout = 0
    /\ sent = <<>>
    /\ elapsed = 0
    /\ host = NoValue
    /\ port = NoValue
    /\ address = <<>>
    /\ info = <<>>
    /\ ping = 0
    /\ exc = NoExc
    /\ handler = "none"
    /\ trace = <<>>
    /\ env = EnvIdle
    /\ retval = <<>>

\* -------------------------------------------------------- resolve_address
\* isinstance(v, int); bool is a subclass of int
IsIntInstance(v) == v.t \in {"int", "bool"}

PortOutOfRangeUpperOff(p) == p.n < MIN_PORT \/ p.n > MAX_PORT + 1
PortOutOfRangeUpperStrict(p) == p.n < MIN_PORT \/ p.n >= MAX_PORT
\* line 56: the range test on an int
PortOutOfRange(p) == p.n < MIN_PORT \/ p.n > MAX_PORT

HostInvalidFalsyOnly(h) == ~Truthy(h)
\* line 59: the host test
HostInvalid(h) == ~Truthy(h) \/ h.t # "str"

ResolveExceptGaiOnly(h, e) ==
    IF IsInstance(e.cls, "gaierror")
    THEN Raise("ValueError",
               <<"Cannot resolve hostname '">> \o Str(h) \o <<"': ">> \o e.msg)
    ELSE e
\* lines 66-69: what the except clauses around gethostbyname raise for e
ResolveExcept(h, e) ==
    IF IsInstance(e.cls, "gaierror")
    THEN Raise("ValueError",
               <<"Cannot resolve hostname '">> \o Str(h) \o <<"': ">> \o e.msg)
    ELSE IF IsInstance(e.cls, "Exception")
    THEN Raise("ValueError", <<"Address resolution error: ">> \o e.msg)
    ELSE e

\* result of resolve_address: the exception raised or the value returned,
\* and the I/O calls made on the way
resolve_address(h, p, dns) ==
    IF ~IsIntInstance(p)
    THEN [exc |-> Raise("ValueError", <<"Port must be an integer, got ">> \o TypeRepr(p)),
          val |-> <<>>, io |-> <<>>]
    ELSE IF PortOutOfRange(p)
    THEN [exc |-> Raise("ValueError",
                        <<"Port must be between ">> \o DecStr(MIN_PORT) \o <<" and ">>
                        \o DecStr(MAX_PORT) \o <<", got ">> \o Str(p)),
          val |-> <<>>, io |-> <<>>]
    ELSE IF HostInvalid(h)
    THEN [exc |-> Raise("ValueError", <<"Host must be a non-empty string">>),
          val |-> <<>>, io |-> <<>>]
    ELSE LET r == gethostbyname(dns) IN
         IF r.exc = NoExc
         THEN [exc |-> NoExc, val |-> <<r.val, p>>, io |-> <<"dns">>]
         ELSE [exc |-> ResolveExcept(h, r.exc), val |-> <<>>, io |-> <<"dns">>]

\* ------------------------------------------------------ _fetch_player_list
PlayerDict(p) == [name |-> p.name, score |-> p.score, duration |-> p.duration]

NamedPlayersKeepAll(ps) == [k \in 1..Len(ps) |-> PlayerDict(ps[k])]
\* lines 160-167: the comprehension over the PLAYER answer
RECURSIVE NamedPlayers(_)
NamedPlayers(ps) ==
    IF ps = <<>> THEN <<>>
    ELSE IF Head(ps).name # <<>>
         THEN <<PlayerDict(Head(ps))>> \o NamedPlayers(Tail(ps))
         ELSE NamedPlayers(Tail(ps))

fetch_player_listTimeoutOnly(beh) ==
    LET r == a2s_players(beh) IN
    IF r.exc = NoExc THEN [exc |-> NoExc, val |-> NamedPlayers(r.val)]
    ELSE IF IsInstance(r.exc.cls, "timeout") THEN [exc |-> NoExc, val |-> <<>>]
    ELSE [exc |-> r.exc, val |-> <<>>]
\* lines 158-170
fetch_player_list(beh) ==
    LET r == a2s_players(beh) IN
    IF r.exc = NoExc THEN [exc |-> NoExc, val |-> NamedPlayers(r.val)]
    ELSE IF IsInstance(r.exc.cls, "Exception") THEN [exc |-> NoExc, val |-> <<>>]
    ELSE [exc |-> r.exc, val |-> <<>>]

\* -------------------------------------------------------------------- fetch
\* round(ping, 2) of a latency in microseconds, in hundredths of a millisecond
Round2(us) ==
    LET q == us \div 10
        r == us % 10
    IN  IF r > 5 \/ (r = 5 /\ q % 2 = 1) THEN q + 1 ELSE q

SuccessResult(i, pg, players) ==
    [success |-> TRUE,
     data |-> [hostname |-> i.server_name,
               map |-> i.map_name,
               current_players |-> i.player_count,
               max_players |-> i.max_players,
               game |-> i.game,
               server_type |-> i.server_type,
               os |-> i.platform,
               password_protected |-> i.password_protected,
               vac_enabled |-> i.vac_enabled,
               ping |-> pg,
               player_list |-> players]]

FailedResult(msg) == [success |-> FALSE, error |-> msg]

ExceptClauseNoResetNoSocketError(cls) ==
    IF IsInstance(cls, "ValueError") THEN "ValueError"
    ELSE IF IsInstance(cls, "timeout") THEN "socket.timeout"
    ELSE IF IsInstance(cls, "ConnectionRefusedError") THEN "ConnectionRefusedError"
    ELSE IF IsInstance(cls, "Exception") THEN "Exception"
    ELSE "uncaught"
ExceptClauseNoCatchAll(cls) ==
    IF IsInstance(cls, "ValueError") THEN "ValueError"
    ELSE IF IsInstance(cls, "timeout") THEN "socket.timeout"
    ELSE IF IsInstance(cls, "ConnectionRefusedError") THEN "ConnectionRefusedError"
    ELSE IF IsInstance(cls, "ConnectionResetError") THEN "ConnectionResetError"
    ELSE IF IsInstance(cls, "OSError") THEN "socket.error"
    ELSE "uncaught"
ExceptClauseSocketErrorFirst(cls) ==
    IF IsInstance(cls, "ValueError") THEN "ValueError"
    ELSE IF IsInstance(cls, "OSError") THEN "socket.error"
    ELSE IF IsInstance(cls, "timeout") THEN "socket.timeout"
    ELSE IF IsInstance(cls, "ConnectionRefusedError") THEN "ConnectionRefusedError"
    ELSE IF IsInstance(cls, "ConnectionResetError") THEN "ConnectionResetError"
    ELSE IF IsInstance(cls, "Exception") THEN "Exception"
    ELSE "uncaught"
\* the first except clause of fetch that matches an exception class
ExceptClause(cls) ==
    IF IsInstance(cls, "ValueError") THEN "ValueError"
    ELSE IF IsInstance(cls, "timeout") THEN "socket.timeout"
    ELSE IF IsInstance(cls, "ConnectionRefusedError") THEN "ConnectionRefusedError"
    ELSE IF IsInstance(cls, "ConnectionResetError") THEN "ConnectionResetError"
    ELSE IF IsInstance(cls, "OSError") THEN "socket.error"
    ELSE IF IsInstance(cls, "Exception") THEN "Exception"
    ELSE "uncaught"

\* the dict an except clause returns
ExceptResult(clause, e) ==
    CASE clause = "ValueError" -> FailedResult(e.msg)
      [] clause = "socket.timeout" ->
           FailedResult(<<"Connection timeout - server may be offline">>)
      [] clause = "ConnectionRefusedError" ->
           FailedResult(<<"Connection refused - invalid IP or port">>)
      [] clause = "ConnectionResetError" ->
           FailedResult(<<"Connection reset - server may be offline">>)
      [] clause = "socket.error" -> FailedResult(<<"Network error: ">> \o e.msg)
      [] clause = "Exception" -> FailedResult(<<"Failed to query server: ">> \o e.msg)

\* ------------------------------------------------------------ fetch_multiple
KeyFromResolvedIP(h, p) ==
    (IF address = <<>> THEN Str(h) ELSE address[1]) \o <<":">> \o Str(p)
\* f"{host}:{port}"
Key(h, p) == Str(h) \o <<":">> \o Str(p)

\* ----------------------------------------------------------------- actions
AfterResolveIgnoresError(r) == "info"
\* fetch, lines 99-102: where control goes after resolve_address
AfterResolve(r) == IF r.exc = NoExc THEN "info" ELSE "except"

\* fetch(h, p) is entered: its locals are fresh
EnterFetch(h, p) ==
    /\ host' = h
    /\ port' = p
    /\ address' = <<>>
    /\ info' = <<>>
    /\ ping' = 0
    /\ exc' = NoExc
    /\ trace' = <<>>
    /\ env' = EnvIdle
    /\ sent' = <<>>
    /\ pc' = "resolve"

\* no fetch is in progress any more
LeaveFetch ==
    /\ host' = NoValue
    /\ port' = NoValue
    /\ address' = <<>>
    /\ info' = <<>>
    /\ ping' = 0
    /\ exc' = NoExc
    /\ trace' = <<>>
    /\ env' = EnvIdle
    /\ sent' = <<>>

\* the record kept of a completed call of fetch
CallRecord(res, clause, io, e, q) ==
    [host |-> host, port |-> port, result |-> res, handler |-> clause,
     trace |-> io, env |-> e, sent |-> q]

StoreAndRetryOnce(res) ==
    /\ results' = (Key(host, port) :> res) @@ results
    /\ IF ~res.success /\ Len(calls) < idx
       THEN /\ idx' = idx
            /\ EnterFetch(host, port)
            /\ UNCHANGED retval
       ELSE IF idx < Len(servers)
       THEN /\ idx' = idx + 1
            /\ EnterFetch(servers[idx + 1].host, servers[idx + 1].port)
            /\ UNCHANGED retval
       ELSE /\ idx' = idx
            /\ LeaveFetch
            /\ pc' = "done"
            /\ retval' = results'
StoreAndStopOnFailure(res) ==
    /\ results' = (Key(host, port) :> res) @@ results
    /\ IF idx < Len(servers) /\ res.success
       THEN /\ idx' = idx + 1
            /\ EnterFetch(servers[idx + 1].host, servers[idx + 1].port)
            /\ UNCHANGED retval
       ELSE /\ idx' = idx
            /\ LeaveFetch
            /\ pc' = "done"
            /\ retval' = results'
\* the loop of fetch_multiple after fetch returned res for servers[idx]:
\* store it under the key, then call fetch for the next address or return
StoreAndContinue(res) ==
    /\ results' = (Key(host, port) :> res) @@ results
    /\ IF idx < Len(servers)
       THEN /\ idx' = idx + 1
            /\ EnterFetch(servers[idx + 1].host, servers[idx + 1].port)
            /\ UNCHANGED retval
       ELSE /\ idx' = idx
            /\ LeaveFetch
            /\ pc' = "done"
            /\ retval' = results'

\* fetch returns res to its caller
FetchReturns(res, clause, io, e, q) ==
    /\ calls' = Append(calls, CallRecord(res, clause, io, e, q))
    /\ handler' = clause
    /\ IF mode = "batch"
       THEN StoreAndContinue(res)
       ELSE /\ LeaveFetch
            /\ pc' = "done"
            /\ retval' = res
            /\ UNCHANGED <<idx, results>>
    /\ UNCHANGED <<mode, servers, timeoutArg, timeout>>

EffectiveTimeoutNoFloor(t) == t
\* self.timeout = max(timeout, 0.5)
EffectiveTimeout(t) == IF t > MIN_TIMEOUT THEN t ELSE MIN_TIMEOUT

\* CS16ServerFetcher(timeout) / create_fetcher(timeout), also inside
\* query_server
Construct ==
    /\ pc = "new"
    /\ \E t \in Timeouts :
         /\ timeoutArg' = t
         /\ timeout' = EffectiveTimeout(t)
    /\ pc' = "idle"
    /\ UNCHANGED <<mode, servers, idx, results, calls, sent, elapsed, host, port,
                   address, info, ping, exc, handler, trace, env, retval>>

\* time a query blocks: the whole timeout when no answer comes (the latency
\* of an answer is far below a tenth of a second)
Blocked(silent, t) == IF silent THEN t ELSE 0

AfterInfoIgnoresError(r) == "players"
\* fetch, lines 106-107: where control goes after a2s.info
AfterInfo(r) == IF r.exc = NoExc THEN "players" ELSE "except"

\* query_server(host, port) / fetcher.fetch(host, port)
CallFetch ==
    /\ pc = "idle"
    /\ \E s \in Servers : EnterFetch(s.host, s.port)
    /\ mode' = "fetch"
    /\ UNCHANGED <<servers, idx, results, calls, handler, retval, timeoutArg,
                   timeout, elapsed>>

\* fetcher.fetch_multiple(servers)
CallFetchMultiple ==
    /\ pc = "idle"
    /\ mode' = "batch"
    /\ results' = <<>>
    /\ \E svs \in SeqUpTo(BatchServers, MaxBatch) :
         /\ servers' = svs
         /\ IF svs = <<>>
            THEN /\ idx' = 0
                 /\ pc' = "done"
                 /\ retval' = <<>>
                 /\ UNCHANGED <<host, port, address, info, ping, exc, trace, env,
                                sent>>
            ELSE /\ idx' = 1
                 /\ EnterFetch(svs[1].host, svs[1].port)
                 /\ UNCHANGED retval
    /\ UNCHANGED <<calls, handler, timeoutArg, timeout, elapsed>>

\* fetch, line 101: resolve_address(host, port)
Resolve ==
    /\ pc = "resolve"
    /\ \E dns \in DnsBehaviours :
         LET r == resolve_address(host, port, dns) IN
         /\ trace' = trace \o r.io
         /\ env' = [env EXCEPT !.dns = IF r.io = <<>> THEN DnsIdle ELSE dns]
         /\ exc' = r.exc
         /\ address' = r.val
         /\ pc' = AfterResolve(r)
    /\ UNCHANGED <<mode, servers, idx, results, calls, host, port, info, ping,
                   handler, retval, timeoutArg, timeout, sent, elapsed>>

\* fetch, lines 105-107: the timed INFO query
InfoQuery ==
    /\ pc = "info"
    /\ \E beh \in InfoBehaviours, lat \in Latencies :
         LET r == a2s_info(beh) IN
         /\ trace' = Append(trace, "info")
         /\ env' = [env EXCEPT !.info = beh,
                               !.latency = IF r.exc = NoExc THEN lat ELSE 0]
         /\ exc' = r.exc
         /\ info' = r.val
         /\ ping' = IF r.exc = NoExc THEN Round2(lat) ELSE 0
         /\ sent' = Append(sent, [query |-> "info", timeout |-> timeout])
         /\ elapsed' = elapsed + Blocked(beh = "silent", timeout)
         /\ pc' = AfterInfo(r)
    /\ UNCHANGED <<mode, servers, idx, results, calls, host, port, address,
                   handler, retval, timeoutArg, timeout>>

\* fetch, lines 110-127: the PLAYER query, then the successful return
PlayerQuery ==
    /\ pc = "players"
    /\ \E beh \in PlayerBehaviours :
         LET r == fetch_player_list(beh)
             io == Append(trace, "players")
             e == [env EXCEPT !.players = beh]
             q == Append(sent, [query |-> "players", timeout |-> timeout])
         IN  /\ elapsed' = elapsed + Blocked(beh.kind = "silent", timeout)
             /\ IF r.exc = NoExc
                THEN FetchReturns(SuccessResult(info[1], ping, r.val), "none", io, e, q)
                ELSE /\ exc' = r.exc
                     /\ trace' = io
                     /\ env' = e
                     /\ sent' = q
                     /\ pc' = "except"
                     /\ UNCHANGED <<mode, servers, idx, results, calls, host, port,
                                    address, info, ping, handler, retval,
                                    timeoutArg, timeout>>

\* fetch, lines 129-146: the except clauses
Handle ==
    /\ pc = "except"
    /\ LET clause == ExceptClause(exc.cls) IN
       IF clause = "uncaught"
       THEN /\ pc' = "raised"
            /\ UNCHANGED <<mode, servers, idx, results, calls, host, port,
                           address, info, ping, exc, handler, trace, env, retval,
                           timeoutArg, timeout, sent, elapsed>>
       ELSE /\ FetchReturns(ExceptResult(clause, exc), clause, trace, env, sent)
            /\ UNCHANGED elapsed

Next ==
    \/ Construct
    \/ CallFetch
    \/ CallFetchMultiple
    \/ Resolve
    \/ InfoQuery
    \/ PlayerQuery
    \/ Handle

\* fetch as a function of its arguments and of what resolver and server do
FetchAlone(h, p, e) ==
    LET r == resolve_address(h, p, e.dns) IN
    IF r.exc # NoExc THEN ExceptResult(ExceptClause(r.exc.cls), r.exc)
    ELSE LET i == a2s_info(e.info) IN
         IF i.exc # NoExc THEN ExceptResult(ExceptClause(i.exc.cls), i.exc)
         ELSE SuccessResult(i.val[1], Round2(e.latency),
                            fetch_player_list(e.players).val)

Spec == Init /\ [][Next]_vars

\* every call made is synchronous and bounded by the timeout, so a step that
\* is possible is eventually taken
FairSpec == Init /\ [][Next]_vars /\ WF_vars(Next)

\* ------------------------------------------------------------------ claims
\* resolve_address has just run for (host, port): it returned (pc = "info")
\* or raised (pc = "except", before any query)
ResolveReturned == pc = "info"
ResolveRaised == pc = "except" /\ env.info = "uncalled"
ResolveActed == ResolveReturned \/ ResolveRaised

\* the invalid-address error
InvalidAddressRaised == ResolveRaised /\ exc.cls = "ValueError"

IsNumber(p) == p.t \in {"int", "float", "bool"}
\* a number below 1 or above 65535 (a float counts in tenths)
OutsidePortRange(p) ==
    /\ IsNumber(p)
    /\ IF p.t = "float" THEN p.n < 10 \/ p.n > 655350 ELSE p.n < 1 \/ p.n > 65535
InsidePortRange(p) == IsNumber(p) /\ ~OutsidePortRange(p)
IntegerValued(p) == IsNumber(p) /\ (p.t = "float" => p.n % 10 = 0)
EmptyOrNotString(h) == h.t # "str" \/ h.s = <<>>

\* C1: for every port outside [1, 65535] and every host, resolve_address
\* raises ValueError and has made no I/O call: no resolver call, no socket.
C1_OutOfRangePortNoIO ==
    (ResolveActed /\ OutsidePortRange(port))
        => (InvalidAddressRaised /\ trace = <<>> /\ env.dns = DnsIdle)

C1_Witness ==
    /\ ResolveRaised
    /\ port = PyInt(65536)
    /\ host = PyStr(<<"a">>)
    /\ exc.cls = "ValueError"

\* C2: for every host that is empty or not a string, and every port,
\* resolve_address raises ValueError and the resolver was called zero times.
C2_BadHostNoResolution ==
    (ResolveActed /\ EmptyOrNotString(host))
        => (InvalidAddressRaised /\ trace = <<>> /\ env.dns = DnsIdle)

C2_Witness ==
    /\ ResolveRaised
    /\ host = PyInt(7)
    /\ port = PyInt(1)
    /\ exc.msg = <<"Host must be a non-empty string">>

\* resolve_address raised one of its two port errors
PortRejected ==
    /\ InvalidAddressRaised
    /\ Head(exc.msg) \in {"Port must be an integer, got ", "Port must be between "}

\* C3 as stated: the port is rejected exactly when it is not an
\* integer-valued number in [1, 65535], and a returned port is the port passed.
C3_Original ==
    ResolveActed =>
        /\ PortRejected <=> ~(IntegerValued(port) /\ InsidePortRange(port))
        /\ ResolveReturned => address[2] = port

\* C3 (amended): the port is rejected exactly when it is not an instance of
\* int (bool included) with a value in [1, 65535]; an integer-valued float is
\* rejected like a string; a returned port is the port passed in.
C3_IntInstancePortAccepted ==
    ResolveActed =>
        /\ PortRejected <=> ~(port.t \in {"int", "bool"} /\ InsidePortRange(port))
        /\ ResolveReturned => address[2] = port

C3_Witness ==
    /\ ResolveReturned
    /\ port = PyInt(65535)
    /\ address = <<ResolvedIP, PyInt(65535)>>

\* text occurs in msg as a contiguous run of tokens
Contains(msg, text) ==
    \E i \in 1..(Len(msg) - Len(text) + 1) :
        SubSeq(msg, i, i + Len(text) - 1) = text

\* C4: whatever the resolver does, resolve_address returns (resolved IP, port)
\* or raises exactly ValueError, whose message contains the resolver's error
\* text; no other exception class leaves resolve_address.
C4_ResolverErrorsTagged ==
    ResolveActed =>
        \/ ResolveReturned /\ exc = NoExc /\ address = <<ResolvedIP, port>>
        \/ /\ ResolveRaised
           /\ exc.cls = "ValueError"
           /\ env.dns.kind = "fail" => Contains(exc.msg, env.dns.exc.msg)

C4_Witness ==
    /\ ResolveRaised
    /\ env.dns.kind = "fail"
    /\ env.dns.exc.cls = "OSError"
    /\ exc.cls = "ValueError"
    /\ Contains(exc.msg, env.dns.exc.msg)

\* a result dict with exactly one variant
Tagged(res) ==
    \/ DOMAIN res = {"success", "data"} /\ res.success = TRUE
    \/ DOMAIN res = {"success", "error"} /\ res.success = FALSE /\ res.error # <<>>

\* C5: for every input and every behaviour of resolver and server, fetch
\* returns a result and lets no exception out; the result is success=True
\* with data and no error, or success=False with an error and no data.
C5_FetchAlwaysTagged ==
    /\ pc # "raised"
    /\ \A i \in 1..Len(calls) : Tagged(calls[i].result)
    /\ (pc = "done" /\ mode = "fetch") => (Tagged(retval) /\ retval = calls[1].result)

C5_Witness ==
    /\ pc = "done"
    /\ Len(calls) = 2
    /\ calls[1].result.success
    /\ calls[2].env.info = "garbled"
    /\ ~calls[2].result.success

\* the input is rejected by validation, or the resolver fails
ValidInput(h, p) ==
    p.t \in {"int", "bool"} /\ InsidePortRange(p) /\ ~EmptyOrNotString(h)
ResolutionFails(c) == ~ValidInput(c.host, c.port) \/ c.env.dns.kind = "fail"

\* C6: when resolution fails inside fetch (invalid port, invalid host, or DNS
\* failure), fetch returns a failed result and issued neither the INFO nor the
\* PLAYER query.
C6_ResolutionFailureNoQuery ==
    \A i \in 1..Len(calls) :
        ResolutionFails(calls[i]) =>
            /\ ~calls[i].result.success
            /\ \A k \in 1..Len(calls[i].trace) : calls[i].trace[k] \notin {"info", "players"}
            /\ calls[i].env.info = "uncalled"

C6_Witness ==
    /\ Len(calls) = 1
    /\ calls[1].env.dns.kind = "fail"
    /\ calls[1].trace = <<"dns">>
    /\ ~calls[1].result.success

\* C7: if the INFO query succeeds and the PLAYER query fails in any way, fetch
\* returns a successful result with the INFO answer's data and an empty player
\* list.
C7_PlayerFailureKeepsInfo ==
    \A i \in 1..Len(calls) :
        (calls[i].env.info = "respond"
         /\ calls[i].env.players.kind \in {"silent", "refuse", "garbled"}) =>
            /\ calls[i].result.success
            /\ calls[i].result.data.player_list = <<>>
            /\ calls[i].result.data.hostname = InfoResponse.server_name
            /\ calls[i].result.data.map = InfoResponse.map_name
            /\ calls[i].result.data.current_players = InfoResponse.player_count
            /\ calls[i].result.data.max_players = InfoResponse.max_players
            /\ calls[i].result.data.game = InfoResponse.game
            /\ calls[i].result.data.server_type = InfoResponse.server_type
            /\ calls[i].result.data.os = InfoResponse.platform
            /\ calls[i].result.data.password_protected = InfoResponse.password_protected
            /\ calls[i].result.data.vac_enabled = InfoResponse.vac_enabled

C7_Witness ==
    /\ Len(calls) = 1
    /\ calls[1].env.info = "respond"
    /\ calls[1].env.players.kind = "garbled"
    /\ calls[1].trace = <<"dns", "info", "players">>
    /\ calls[1].result.success

TimeoutResult ==
    [success |-> FALSE, error |-> <<"Connection timeout - server may be offline">>]

\* C8: a fetch of a resolved address whose server never answers the INFO query
\* terminates, and its result is the failed result with the timeout message:
\* never a success and never another error.
C8_SilentServerTimesOut ==
    /\ [](\A i \in 1..Len(calls) :
            calls[i].env.info = "silent" =>
                calls[i].result = TimeoutResult /\ calls[i].handler = "socket.timeout")
    /\ (pc = "except" /\ env.info = "silent")
           ~> (calls # <<>> /\ calls[Len(calls)].env.info = "silent")

C8_Witness ==
    /\ pc = "done"
    /\ mode = "fetch"
    /\ calls[1].env.dns.kind = "ok"
    /\ calls[1].env.info = "silent"
    /\ retval = TimeoutResult

\* the key a caller expects for a request: its own host and port, as text
RequestedKey(s) == Str(s.host) \o <<":">> \o Str(s.port)
BatchDone == mode = "batch" /\ pc = "done"
LastWithKey(i) ==
    \A j \in (i + 1)..Len(servers) : RequestedKey(servers[j]) # RequestedKey(servers[i])

\* C9: fetch_multiple returns a map with exactly one entry per distinct
\* requested "host:port" key, each a tagged result; the key is made of the
\* caller's host text, also when the host does not resolve; for a key
\* requested more than once the entry is the result of the later request.
C9_BatchKeyedByRequest ==
    BatchDone =>
        /\ DOMAIN retval = {RequestedKey(servers[i]) : i \in 1..Len(servers)}
        /\ Len(calls) = Len(servers)
        /\ \A i \in 1..Len(servers) :
             /\ Tagged(retval[RequestedKey(servers[i])])
             /\ LastWithKey(i) => retval[RequestedKey(servers[i])] = calls[i].result

C9_Witness ==
    /\ BatchDone
    /\ Len(servers) = 2
    /\ servers[1].port # servers[2].port
    /\ RequestedKey(servers[1]) = RequestedKey(servers[2])
    /\ calls[1].env.dns.kind = "fail"
    /\ calls[1].result # calls[2].result
    /\ retval[RequestedKey(servers[1])] = calls[2].result

\* every request of the batch was fetched, with the result fetch gives alone
EachFetchedAlone ==
    /\ Len(calls) = Len(servers)
    /\ \A i \in 1..Len(servers) :
         /\ calls[i].host = servers[i].host
         /\ calls[i].port = servers[i].port
         /\ calls[i].result = FetchAlone(servers[i].host, servers[i].port, calls[i].env)

\* resolver and server behave the same each time the same address is asked
SameBehaviourPerAddress ==
    \A i, j \in 1..Len(calls) :
        (calls[i].host = calls[j].host /\ calls[i].port = calls[j].port)
            => calls[i].env = calls[j].env

\* C10 as stated: no request is cancelled or omitted, and the entry stored
\* for every requested address is the result fetch gives for that address
\* alone under the same server behaviour.
C10_Original ==
    (BatchDone /\ SameBehaviourPerAddress) =>
        /\ EachFetchedAlone
        /\ \A i \in 1..Len(servers) :
             retval[RequestedKey(servers[i])]
                 = FetchAlone(servers[i].host, servers[i].port, calls[i].env)

\* C10 (amended): no request is cancelled or omitted, each fetch returns what
\* fetch gives for that address alone, and that result is the entry stored
\* for the address unless a later request of the batch has the same key.
C10_BatchIsolation ==
    BatchDone =>
        /\ EachFetchedAlone
        /\ \A i \in 1..Len(servers) :
             LastWithKey(i) => retval[RequestedKey(servers[i])] = calls[i].result

C10_Witness ==
    /\ BatchDone
    /\ Len(servers) = 2
    /\ calls[1].env.info = "silent"
    /\ calls[2].result.success
    /\ retval[RequestedKey(servers[1])] = TimeoutResult
    /\ retval[RequestedKey(servers[2])] = calls[2].result

\* C11 as stated: fetch_multiple queries its addresses concurrently, so a
\* batch of two or more addresses that all time out has spent less than two
\* timeout durations blocked when it returns.
C11_Original ==
    (BatchDone /\ Len(servers) >= 2
     /\ \A i \in 1..Len(calls) : calls[i].env.info = "silent")
        => elapsed < 2 * timeout

\* the timeout the claim expects for a fetcher constructed with t
FlooredTimeout(t) == IF t >= 5 THEN t ELSE 5
SentSoFar == [i \in 1..Len(calls) |-> calls[i].sent] \o <<sent>>

\* C12: every INFO and PLAYER query is sent with a timeout of at least 0.5 s,
\* namely max(timeout, 0.5) of the timeout the fetcher was constructed with;
\* the PLAYER query has the timeout of the INFO query.
C12_TimeoutFloor ==
    /\ pc # "new" => timeout = FlooredTimeout(timeoutArg)
    /\ \A i \in 1..Len(SentSoFar) :
         \A k \in 1..Len(SentSoFar[i]) :
             /\ SentSoFar[i][k].timeout >= 5
             /\ SentSoFar[i][k].timeout = FlooredTimeout(timeoutArg)
             /\ SentSoFar[i][k].timeout = SentSoFar[i][1].timeout

C12_Witness ==
    /\ timeoutArg = 1
    /\ Len(calls) = 1
    /\ calls[1].sent = <<[query |-> "info", timeout |-> 5],
                         [query |-> "players", timeout |-> 5]>>

\* C13: within one fetch the steps are resolve, INFO query, PLAYER query: the
\* PLAYER query is issued only after the INFO query returned an answer, never
\* when resolution or the INFO query failed.
C13_ResolveInfoPlayerOrder ==
    /\ pc = "info" => (address # <<>> /\ trace = <<"dns">>)
    /\ pc = "players" => (info # <<>> /\ address # <<>> /\ trace = <<"dns", "info">>)
    /\ \A i \in 1..Len(calls) :
         /\ calls[i].trace \in {<<>>, <<"dns">>, <<"dns", "info">>,
                                <<"dns", "info", "players">>}
         /\ Len(calls[i].trace) = 3 =>
                (calls[i].env.dns.kind = "ok" /\ calls[i].env.info = "respond")
         /\ (ResolutionFails(calls[i]) \/ calls[i].env.info # "respond") =>
                calls[i].env.players = PlayersIdle

C13_Witness ==
    /\ Len(calls) = 2
    /\ calls[1].trace = <<"dns", "info", "players">>
    /\ calls[2].trace = <<"dns", "info">>
    /\ calls[2].env.info = "garbled"

\* C14 as stated: a result of the invalid-input handler is returned only when
\* validation or resolution failed, hence with no query issued; a failure of
\* the INFO query is never reported by that handler.
C14_Original ==
    \A i \in 1..Len(calls) :
        calls[i].handler = "ValueError" =>
            /\ ResolutionFails(calls[i])
            /\ calls[i].sent = <<>>

\* the transport-level failures of the INFO query
TransportFailures == {"silent", "refuse", "reset", "unreachable"}

\* C15: a transport failure of the INFO query is reported by the most specific
\* kind: timeout, refusal and reset by their own clause and message, and only
\* the other socket errors as a network error; never as network or unexpected
\* error.
C15_MostSpecificErrorKind ==
    \A i \in 1..Len(calls) :
        LET c == calls[i] IN
        /\ c.env.info = "silent" =>
             /\ c.handler = "socket.timeout"
             /\ c.result.error = <<"Connection timeout - server may be offline">>
        /\ c.env.info = "refuse" =>
             /\ c.handler = "ConnectionRefusedError"
             /\ c.result.error = <<"Connection refused - invalid IP or port">>
        /\ c.env.info = "reset" =>
             /\ c.handler = "ConnectionResetError"
             /\ c.result.error = <<"Connection reset - server may be offline">>
        /\ c.env.info = "unreachable" =>
             /\ c.handler = "socket.error"
             /\ Head(c.result.error) = "Network error: "
        /\ c.handler = "socket.error" => c.env.info = "unreachable"
        /\ c.handler = "Exception" => c.env.info \notin TransportFailures

C15_Witness ==
    /\ Len(calls) = 2
    /\ calls[1].env.info = "reset"
    /\ calls[1].handler = "ConnectionResetError"
    /\ calls[2].env.info = "unreachable"
    /\ calls[2].handler = "socket.error"

\* C16 as stated: a malformed or truncated INFO answer gives a failed result
\* of a kind of its own, told apart from the catch-all kind and from the
\* invalid-address kind.
C16_Original ==
    \A i \in 1..Len(calls) :
        calls[i].env.info \in {"garbled", "badvalue"} =>
            /\ ~calls[i].result.success
            /\ calls[i].handler \notin {"Exception", "ValueError"}

\* number of times x occurs in seq
CountOf(seq, x) == Cardinality({k \in 1..Len(seq) : seq[k] = x})

\* C17: a fetch issues at most one INFO query and at most one PLAYER query,
\* whatever their outcomes, and fetch_multiple calls fetch once per request:
\* no query is issued again for an address that failed.
C17_NoRetry ==
    /\ CountOf(trace, "info") <= 1 /\ CountOf(trace, "players") <= 1
    /\ Len(sent) <= 2
    /\ \A i \in 1..Len(calls) :
         /\ CountOf(calls[i].trace, "dns") <= 1
         /\ CountOf(calls[i].trace, "info") <= 1
         /\ CountOf(calls[i].trace, "players") <= 1
         /\ Len(calls[i].sent) = CountOf(calls[i].trace, "info")
                                 + CountOf(calls[i].trace, "players")
    /\ mode = "fetch" => Len(calls) <= 1
    /\ mode = "batch" =>
         /\ Len(calls) <= Len(servers)
         /\ Len(calls) = IF pc = "done" THEN Len(servers) ELSE idx - 1
         /\ \A i \in 1..Len(calls) :
              calls[i].host = servers[i].host /\ calls[i].port = servers[i].port

C17_Witness ==
    /\ BatchDone
    /\ Len(servers) = 2
    /\ calls[1].env.info = "silent"
    /\ calls[1].trace = <<"dns", "info">>
    /\ calls[2].env.info = "respond"
    /\ calls[2].env.players.kind = "silent"
    /\ calls[2].trace = <<"dns", "info", "players">>

\* the entries of a PLAYER answer that carry a name, in the answer's order
HasName(p) == p.name # <<>>

====
